---- MODULE Spec2Model ----
(***************************************************************************)
(* Model of monailabel/transform/pre.py: the three dictionary transforms   *)
(* LoadImageTensord, LoadImageExd and NormalizeLabeld.                     *)
(*                                                                         *)
(* Python objects are modelled by reference: a data record is a dict       *)
(* object in `dicts`, an array is an object in `arrays`, a metadata entry  *)
(* is a dict object in `metas`.  A value held by a record is a small       *)
(* record [kind, ref, meta] naming the object it refers to.                *)
(* Every __call__ is one action; its body is computed key by key by a      *)
(* recursive operator that threads the heap, and stops at the first        *)
(* exception, exactly where the Python code would raise.                   *)
(***************************************************************************)
EXTENDS Integers, Sequences, FiniteSets, TLC

VARIABLES
    dicts,      \* heap: dict id -> (record key -> value)
    arrays,     \* heap: array id -> [shape, elems]
    metas,      \* heap: metadata-entry id -> (field -> field value)
    caller,     \* id of the dict object the caller passes as `data`
    pc,         \* "ready" | "returned" | "raised"
    cfg,        \* the transform instance of the last call (self) and its reader
    result,     \* id of the dict object returned by the last call, or NoResult
    err,        \* exception class raised by the last call, or "none"
    failedAt,   \* position in self.keys where the last call raised (0: did not raise)
    calls,      \* log of collaborator invocations made by the last call
    pre,        \* heap as it was when the last call started
    ncalls      \* number of calls made so far

vars == <<dicts, arrays, metas, caller, pc, cfg, result, err, failedAt, calls, pre, ncalls>>

----------------------------------------------------------------------------
(* Bounds *)

MaxKeys == 2        \* longest self.keys
MaxCalls == 2       \* calls chained on one record

----------------------------------------------------------------------------
(* Names visible in pre.py *)

\* Names bound at module level by the import statements and definitions.
ModuleGlobals ==
    { "logging", "Optional", "KeysCollection", "ImageReader", "MetaTensor",
      "LoadImaged", "MapTransform", "PostFix", "logger",
      "LoadImageTensord", "LoadImageExd", "NormalizeLabeld" }

Builtins == { "dict", "isinstance", "str", "enumerate", "super" }

\* Python resolves a free name in the module globals, then in the builtins;
\* a name found in neither raises NameError when the expression is evaluated.
NameBound(name) == name \in ModuleGlobals \cup Builtins

----------------------------------------------------------------------------
(* Values and heap objects *)

BaseKeys == { "image", "label" }

\* PostFix.meta() with no key
PostFixMeta == "meta_dict"

\* f"{key}_{postfix}"
MetaDictKey(key, postfix) == key \o "_" \o postfix

RecKeys == BaseKeys \cup { MetaDictKey(k, PostFixMeta) : k \in BaseKeys }

ArrId(key) == "a_" \o key
MetaId(key) == "m_" \o key
ArrIds == { ArrId(k) : k \in BaseKeys } \cup { "a_ext" }
MetaIds == { MetaId(k) : k \in RecKeys } \cup { "m_ext" }

Val(kind, ref, meta) == [kind |-> kind, ref |-> ref, meta |-> meta]
Absent == Val("absent", "", "")
StrVal(path) == Val("str", path, "")
NoneVal == Val("None", "", "")
NdArray(a) == Val("ndarray", a, "")
DictVal(m) == Val("dict", m, "")

\* MetaTensor(x, meta=meta_dict): a tensor over the storage of x that holds
\* the metadata entry by reference.
MetaTensor(x, m) == Val("MetaTensor", x.ref, m)

IsStr(v) == v.kind = "str"
IsNdArray(v) == v.kind = "ndarray"
HasShape(v) == v.kind \in { "ndarray", "MetaTensor" }

FV(kind, val) == [kind |-> kind, val |-> val]
Unset == FV("unset", <<>>)
MetaFields == { "spatial_shape", "original_channel_dim", "original_affine", "filename_or_obj" }
EmptyMeta == [f \in MetaFields |-> Unset]

\* a metadata entry left in the record by an earlier loader
StaleMeta ==
    [f \in MetaFields |->
        CASE f = "spatial_shape" -> FV("tuple", <<9>>)
          [] f = "original_channel_dim" -> FV("int", <<0>>)
          [] f = "original_affine" -> FV("ndarray", <<>>)
          [] OTHER -> FV("str", <<>>)]

EmptyDict == [k \in RecKeys |-> Absent]

\* Dict objects: 0 is the record the first caller owns, n the copy made by the
\* n-th call, ExtDict a dict object owned by a collaborator (a loader's own result).
ExtDict == MaxCalls + 1
NoResult == MaxCalls + 2
DictIds == 0..ExtDict

Paths == { "a.png" }
Shapes == { <<2>>, <<1, 2>> }
ElemVals == { -1, 0, 2 }
Values == { -1, 0, 1 }

RECURSIVE Product(_)
Product(s) == IF s = <<>> THEN 1 ELSE Head(s) * Product(Tail(s))

Contents(shape) == [1..Product(shape) -> ElemVals]

DefaultArray == [shape |-> <<2>>, elems |-> <<0, 0>>]

\* x.shape[:-1]
ShapeButLast(shape) == SubSeq(shape, 1, Len(shape) - 1)

----------------------------------------------------------------------------
(* Execution state of one __call__ *)

\* st.d is the local variable d; st.flag is use_default / direct_image.
Start(ds, as, ms) ==
    [dicts |-> ds, arrays |-> as, metas |-> ms, d |-> NoResult, flag |-> FALSE,
     err |-> "none", at |-> 0, ret |-> NoResult, calls |-> <<>>]

Raise(st, e, i) == [st EXCEPT !.err = e, !.at = i]
Raised(st) == st.err # "none"

\* d[key]
Get(st, key) == IF key \in RecKeys THEN st.dicts[st.d][key] ELSE Absent

\* d[key] = v
Put(st, key, v) == [st EXCEPT !.dicts[st.d][key] = v]

\* faulty variant: d = data, the caller's own dict object
DictCopyAlias(st, src, fresh) == [st EXCEPT !.d = src]

\* d = dict(data): a new dict object with the same bindings
DictCopy(st, src, fresh) == [st EXCEPT !.dicts[fresh] = st.dicts[src], !.d = fresh]

\* d.setdefault(meta_dict_key, {}): binds a new empty dict if the key is absent
SetDefaultMeta(st, mk) ==
    IF Get(st, mk).kind = "absent"
    THEN [Put(st, mk, DictVal(MetaId(mk))) EXCEPT !.metas[MetaId(mk)] = EmptyMeta]
    ELSE st

\* meta_dict[field] = fv
SetField(st, m, field, fv) == [st EXCEPT !.metas[m][field] = fv]

\* the shape of an array or of a tensor over it
ShapeOf(st, v) == st.arrays[v.ref].shape

\* Lines 55-61 and 90-96: build the metadata entry and wrap the value.
\* Raises AttributeError at `.shape` when the value has none.
DirectToMetaTensor(st, key, mk, i) ==
    LET s1 == SetDefaultMeta(st, mk)
        m == Get(s1, mk).ref
        v == Get(s1, key)
    IN  IF ~HasShape(v) THEN Raise(s1, "AttributeError", i)
        ELSE LET s2 == SetField(s1, m, "spatial_shape", FV("tuple", ShapeButLast(ShapeOf(s1, v))))
                 s3 == SetField(s2, m, "original_channel_dim", FV("int", <<-1>>))
                 s4 == SetField(s3, m, "original_affine", FV("None", <<>>))
             IN  Put(s4, key, MetaTensor(v, m))

----------------------------------------------------------------------------
(* Collaborators *)

\* Image.open(path): fails when the file cannot be read (fs: the readable paths)
ImageOpenFails(path, fs) == path \notin fs

\* self.load_image_d(d): calling None raises TypeError; a loader is logged and
\* hands back a record of its own choosing (its argument, or a dict of its own).
CallDefaultLoader(st, self, env, i) ==
    IF self.load_image_d = "None" THEN Raise(st, "TypeError", i)
    ELSE LET out == IF env.inplace THEN st.d ELSE ExtDict
         IN  [st EXCEPT !.calls = Append(@, [fn |-> "load_image_d", arg |-> st.d,
                                             reader |-> "-", ret |-> out]),
                        !.d = out]

\* super().__call__(d, reader): LoadImaged, logged the same way
CallLoadImaged(st, self, env) ==
    LET out == IF env.inplace THEN st.d ELSE ExtDict
    IN  [st EXCEPT !.calls = Append(@, [fn |-> "LoadImaged.__call__", arg |-> st.d,
                                        reader |-> self.reader, ret |-> out]),
                   !.d = out]

\* return d
Return(st) == [st EXCEPT !.ret = st.d]

----------------------------------------------------------------------------
(* Iteration over the target keys *)

\* faulty variant: MapTransform.key_iterator, which skips missing keys when
\* allow_missing_keys is set
KeyIterator(self, st) ==
    IF self.allow_missing_keys
    THEN SelectSeq(self.keys, LAMBDA k : Get(st, k).kind # "absent")
    ELSE self.keys

\* `for key in self.keys`: every configured key, whatever allow_missing_keys says
TargetKeys(self, st) == self.keys

\* ensure_tuple_rep(meta_key_postfix, len(keys)) with the default postfix
MetaKeyPostfix(self) == [i \in 1..Len(self.keys) |-> PostFixMeta]

----------------------------------------------------------------------------
(* LoadImageTensord.__call__ *)

RECURSIVE LoadImageTensordKeys(_, _, _, _)
LoadImageTensordKeys(st, keys, env, i) ==
    IF i > Len(keys) THEN st
    ELSE LET key == keys[i]
             v == Get(st, key)
         IN  IF v.kind = "absent" THEN Raise(st, "KeyError", i)
             ELSE IF IsStr(v)
             THEN \* image_np = np.asarray(Image.open(d[key])): a local, not stored
                  IF ~NameBound("np") \/ ~NameBound("Image") THEN Raise(st, "NameError", i)
                  ELSE IF ImageOpenFails(v.ref, env.fs) THEN Raise(st, "FileNotFoundError", i)
                  ELSE LoadImageTensordKeys(st, keys, env, i + 1)
             ELSE LET s1 == DirectToMetaTensor(st, key, MetaDictKey(key, PostFixMeta), i)
                  IN  IF Raised(s1) THEN s1
                      ELSE LoadImageTensordKeys([s1 EXCEPT !.flag = FALSE], keys, env, i + 1)

LoadImageTensord(st0, self, data, fresh, env) ==
    LET s0 == [DictCopy(st0, data, fresh) EXCEPT !.flag = TRUE]     \* use_default = True
        s1 == LoadImageTensordKeys(s0, TargetKeys(self, s0), env, 1)
    IN  IF Raised(s1) THEN s1
        ELSE IF s1.flag
        THEN LET s2 == CallDefaultLoader(s1, self, env, Len(self.keys) + 1)
             IN  IF Raised(s2) THEN s2 ELSE Return(s2)
        ELSE Return(s1)

----------------------------------------------------------------------------
(* LoadImageExd.__call__ *)

RECURSIVE LoadImageExdKeys(_, _, _, _)
LoadImageExdKeys(st, self, keys, i) ==
    IF i > Len(keys) THEN st
    ELSE LET key == keys[i]
             v == Get(st, key)
         IN  \* isinstance(d[key], np.ndarray): d[key] is evaluated, then np.ndarray
             IF v.kind = "absent" THEN Raise(st, "KeyError", i)
             ELSE IF ~NameBound("np") THEN Raise(st, "NameError", i)
             ELSE IF IsNdArray(v)
             THEN LET s1 == DirectToMetaTensor([st EXCEPT !.flag = TRUE], key,
                                               MetaDictKey(key, MetaKeyPostfix(self)[i]), i)
                  IN  IF Raised(s1) THEN s1 ELSE LoadImageExdKeys(s1, self, keys, i + 1)
             ELSE LoadImageExdKeys(st, self, keys, i + 1)

LoadImageExd(st0, self, data, fresh, env) ==
    LET s0 == [DictCopy(st0, data, fresh) EXCEPT !.flag = FALSE]    \* direct_image = False
        s1 == LoadImageExdKeys(s0, self, TargetKeys(self, s0), 1)
    IN  IF Raised(s1) THEN s1
        ELSE IF ~s1.flag THEN Return(CallLoadImaged(s1, self, env))
        ELSE Return(s1)

----------------------------------------------------------------------------
(* NormalizeLabeld.__call__ *)

\* faulty variant: label != 0
NonZero(x) == x # 0

\* label > 0, element by element
Positive(x) == x > 0

\* faulty variant: label[label > 0] += self.value
MaskedValueAdd(x, value) == x + value

\* the value stored into a masked element
MaskedValue(x, value) == value

\* label[label > 0] = self.value, on the elements of one array
MaskedAssign(elems, value) ==
    [j \in DOMAIN elems |-> IF Positive(elems[j]) THEN MaskedValue(elems[j], value) ELSE elems[j]]

\* faulty variant: the assignment is made on a copy of the array
WriteArrayLost(st, a, elems) == st

\* the assignment is made in place, on the array object the record refers to
WriteArray(st, a, elems) == [st EXCEPT !.arrays[a].elems = elems]

RECURSIVE NormalizeLabeldKeys(_, _, _, _)
NormalizeLabeldKeys(st, self, keys, i) ==
    IF i > Len(keys) THEN st
    ELSE LET key == keys[i]
             label == Get(st, key)
         IN  IF label.kind = "absent" THEN Raise(st, "KeyError", i)
             \* label > 0 on a str or on None: '>' is not supported
             ELSE IF ~HasShape(label) THEN Raise(st, "TypeError", i)
             ELSE LET s1 == WriteArray(st, label.ref, MaskedAssign(st.arrays[label.ref].elems, self.value))
                  IN  NormalizeLabeldKeys(Put(s1, key, label), self, keys, i + 1)

NormalizeLabeld(st0, self, data, fresh, env) ==
    LET s0 == DictCopy(st0, data, fresh)
        s1 == NormalizeLabeldKeys(s0, self, TargetKeys(self, s0), 1)
    IN  IF Raised(s1) THEN s1 ELSE Return(s1)

----------------------------------------------------------------------------
(* Transform instances and inputs *)

\* MapTransform.__init__ rejects an empty key collection (ensure_tuple(keys))
KeySeqs == UNION { [1..n -> BaseKeys] : n \in 1..MaxKeys }

Self(op, keys, amk, loader, value, reader) ==
    [op |-> op, keys |-> keys, allow_missing_keys |-> amk, load_image_d |-> loader,
     value |-> value, reader |-> reader]

NoSelf == Self("none", <<>>, FALSE, "None", 1, "None")

Envs == [fs : SUBSET Paths, inplace : BOOLEAN]

AllArrays == UNION { [shape : {s}, elems : Contents(s)] : s \in Shapes }

BaseOf(mk) == CHOOSE k \in BaseKeys : MetaDictKey(k, PostFixMeta) = mk

InitialRecord(kinds, hasMeta) ==
    [rk \in RecKeys |->
        IF rk \in BaseKeys
        THEN CASE kinds[rk] = "str" -> StrVal(CHOOSE p \in Paths : TRUE)
               [] kinds[rk] = "None" -> NoneVal
               [] kinds[rk] = "ndarray" -> NdArray(ArrId(rk))
               [] OTHER -> Absent
        ELSE IF hasMeta[BaseOf(rk)] THEN DictVal(MetaId(rk)) ELSE Absent]

\* what a collaborator's own result looks like: the image loaded, with metadata
ExtRecord == [rk \in RecKeys |-> IF rk = "image" THEN Val("MetaTensor", "a_ext", "m_ext") ELSE Absent]

Init ==
    \E kinds \in [BaseKeys -> {"absent", "str", "None", "ndarray"}],
       hasMeta \in [BaseKeys -> BOOLEAN],
       arr \in [BaseKeys -> AllArrays] :
        /\ \A k \in BaseKeys : kinds[k] # "ndarray" => arr[k] = DefaultArray
        /\ dicts = [id \in DictIds |->
                        IF id = 0 THEN InitialRecord(kinds, hasMeta)
                        ELSE IF id = ExtDict THEN ExtRecord ELSE EmptyDict]
        /\ arrays = [a \in ArrIds |->
                        IF \E k \in BaseKeys : a = ArrId(k)
                        THEN arr[CHOOSE k \in BaseKeys : a = ArrId(k)]
                        ELSE DefaultArray]
        /\ metas = [m \in MetaIds |->
                        IF m = "m_ext" \/ \E k \in BaseKeys : m = MetaId(MetaDictKey(k, PostFixMeta)) /\ hasMeta[k]
                        THEN StaleMeta ELSE EmptyMeta]
        /\ caller = 0
        /\ pc = "ready"
        /\ cfg = NoSelf
        /\ result = NoResult
        /\ err = "none"
        /\ failedAt = 0
        /\ calls = <<>>
        /\ pre = [dicts |-> dicts, arrays |-> arrays, metas |-> metas]
        /\ ncalls = 0

----------------------------------------------------------------------------
(* Actions: one per __call__ *)

Run(self, data, fresh, env) ==
    LET st0 == Start(dicts, arrays, metas)
    IN  CASE self.op = "LoadImageTensord" -> LoadImageTensord(st0, self, data, fresh, env)
          [] self.op = "LoadImageExd" -> LoadImageExd(st0, self, data, fresh, env)
          [] OTHER -> NormalizeLabeld(st0, self, data, fresh, env)

\* the caller calls self(data)
Finish(self, data, st) ==
    /\ dicts' = st.dicts
    /\ arrays' = st.arrays
    /\ metas' = st.metas
    /\ caller' = data
    /\ pc' = IF Raised(st) THEN "raised" ELSE "returned"
    /\ cfg' = self
    /\ result' = st.ret
    /\ err' = st.err
    /\ failedAt' = st.at
    /\ calls' = st.calls
    /\ pre' = [dicts |-> dicts, arrays |-> arrays, metas |-> metas]
    /\ ncalls' = ncalls + 1

CallLoadImageTensord ==
    /\ pc = "ready"
    /\ \E keys \in KeySeqs, amk \in BOOLEAN, loader \in {"None", "fn"}, env \in Envs :
        LET self == Self("LoadImageTensord", keys, amk, loader, 1, "None")
        IN  Finish(self, caller, Run(self, caller, ncalls + 1, env))

CallLoadImageExd ==
    /\ pc = "ready"
    /\ \E keys \in KeySeqs, amk \in BOOLEAN, reader \in {"None", "reader"}, env \in Envs :
        LET self == Self("LoadImageExd", keys, amk, "None", 1, reader)
        IN  Finish(self, caller, Run(self, caller, ncalls + 1, env))

CallNormalizeLabeld ==
    /\ pc = "ready"
    /\ \E keys \in KeySeqs, amk \in BOOLEAN, value \in Values, env \in Envs :
        LET self == Self("NormalizeLabeld", keys, amk, "None", value, "None")
        IN  Finish(self, caller, Run(self, caller, ncalls + 1, env))

\* the caller passes the returned record to the same transform again
Reapply ==
    /\ pc = "returned"
    /\ ncalls < MaxCalls
    /\ \E env \in Envs : Finish(cfg, result, Run(cfg, result, ncalls + 1, env))

Next == CallNormalizeLabeld \/ CallLoadImageTensord \/ CallLoadImageExd \/ Reapply

Spec == Init /\ [][Next]_vars

----------------------------------------------------------------------------
(* Vocabulary of the properties *)

Called(op) == pc # "ready" /\ cfg.op = op
Keys == cfg.keys
KeyIdx == 1..Len(Keys)

\* the record as the caller passed it, and the value it bound to a key
PreRec == pre.dicts[caller]
PreVal(key) == PreRec[key]

AllPresent == \A i \in KeyIdx : PreVal(Keys[i]).kind # "absent"
HasMissing == \E i \in KeyIdx : PreVal(Keys[i]).kind = "absent"
FirstMissing == CHOOSE i \in KeyIdx :
    /\ PreVal(Keys[i]).kind = "absent"
    /\ \A j \in 1..(i - 1) : PreVal(Keys[j]).kind # "absent"

\* every target key holds a file path or a numpy array
PathsAndArrays == \A i \in KeyIdx : PreVal(Keys[i]).kind \in {"str", "ndarray"}

CallsTo(fn) == SelectSeq(calls, LAMBDA c : c.fn = fn)

\* an element of a label after binarization with `value`
Binarized(x, value) == IF x > 0 THEN value ELSE x

\* the array a[key] of the caller's record now holds the binarized contents
LabelBinarized(key) ==
    LET a == PreVal(key).ref
    IN  /\ DOMAIN arrays[a].elems = DOMAIN pre.arrays[a].elems
        /\ \A j \in DOMAIN arrays[a].elems :
              arrays[a].elems[j] = Binarized(pre.arrays[a].elems[j], cfg.value)

\* the returned record binds key to a tensor over the caller's array, with the
\* metadata entry of the key filled in
WrappedWithMeta(key) ==
    LET mk == MetaDictKey(key, PostFixMeta)
        t == dicts[result][key]
        e == dicts[result][mk]
    IN  /\ t.kind = "MetaTensor"
        /\ t.ref = PreVal(key).ref
        /\ e.kind = "dict"
        /\ t.meta = e.ref
        /\ metas[e.ref]["spatial_shape"] = FV("tuple", ShapeButLast(pre.arrays[PreVal(key).ref].shape))
        /\ metas[e.ref]["original_channel_dim"] = FV("int", <<-1>>)
        /\ metas[e.ref]["original_affine"] = FV("None", <<>>)
        /\ PreVal(mk).kind = "dict" =>
              /\ e = PreVal(mk)
              /\ metas[e.ref]["filename_or_obj"] = pre.metas[e.ref]["filename_or_obj"]

----------------------------------------------------------------------------
(* Properties *)

\* C1: LoadImageTensord invokes the default loader exactly once, on the whole
\* record, iff no target key holds a non-string value, and then returns the
\* loader's result unchanged; otherwise the loader is never called.
C1_DefaultLoaderIffNoDirect ==
    (Called("LoadImageTensord") /\ AllPresent /\ cfg.load_image_d = "fn") =>
        LET direct == \E i \in KeyIdx : ~IsStr(PreVal(Keys[i]))
            loads == CallsTo("load_image_d")
        IN  /\ direct => Len(loads) = 0
            /\ ~direct =>
                  /\ Len(loads) = 1
                  /\ dicts[loads[1].arg] = PreRec
                  /\ pc = "returned"
                  /\ result = loads[1].ret

\* C2: for every target key holding a direct array, both loaders return a
\* record that binds the key to a tensor-with-metadata over the same array,
\* with the key's metadata entry present (spatial_shape = shape without the
\* last axis, original_channel_dim = -1, original_affine null), an entry already
\* present being reused with its other fields kept.
C2_ArrayKeysWrapped ==
    ((Called("LoadImageTensord") \/ Called("LoadImageExd")) /\ AllPresent /\ PathsAndArrays) =>
        \A i \in KeyIdx :
            IsNdArray(PreVal(Keys[i])) => (pc = "returned" /\ WrappedWithMeta(Keys[i]))

\* C3: LoadImageExd: once a target key holds an array, that key and every later
\* target key, string paths included, is bound to a tensor-with-metadata in the
\* returned record.
C3_SubsequentKeysConverted ==
    (Called("LoadImageExd") /\ AllPresent /\ PathsAndArrays) =>
        \A i \in KeyIdx :
            IsNdArray(PreVal(Keys[i])) =>
                /\ pc = "returned"
                /\ \A j \in i..Len(Keys) : dicts[result][Keys[j]].kind = "MetaTensor"

\* C4: LoadImageExd invokes the inherited loader once, with the record and the
\* caller's reader, iff no target key holds a direct array; with a direct array
\* the inherited loader is not invoked at all.
C4_InheritedLoaderIffNoDirect ==
    (Called("LoadImageExd") /\ AllPresent /\ PathsAndArrays) =>
        LET direct == \E i \in KeyIdx : IsNdArray(PreVal(Keys[i]))
            loads == CallsTo("LoadImaged.__call__")
        IN  /\ direct => Len(loads) = 0
            /\ ~direct =>
                  /\ Len(loads) = 1
                  /\ dicts[loads[1].arg] = PreRec
                  /\ loads[1].reader = cfg.reader
                  /\ pc = "returned"

C6_Idempotent ==
    (Called("NormalizeLabeld") /\ ncalls >= 2 /\ pc = "returned") =>
        /\ arrays = pre.arrays
        /\ \A i \in KeyIdx : dicts[result][Keys[i]] = PreVal(Keys[i])

\* the second application met an element the first one had set to the value
C6_Witness ==
    /\ Called("NormalizeLabeld") /\ ncalls = 2 /\ pc = "returned" /\ cfg.value = 1
    /\ \E i \in KeyIdx : \E j \in DOMAIN arrays[PreVal(Keys[i]).ref].elems :
          /\ pre.arrays[PreVal(Keys[i]).ref].elems[j] = 1
          /\ arrays[PreVal(Keys[i]).ref].elems[j] = 1

\* C7: LoadImageTensord leaves the caller's dict object as it was, whether the
\* call returns or raises: the same keys, each bound to the same value object.
C7_CallerRecordNotMutated ==
    Called("LoadImageTensord") => dicts[caller] = pre.dicts[caller]

\* a returning call rebound a key in its copy and filled a metadata entry the
\* caller's record already held
C7_Witness ==
    /\ Called("LoadImageTensord") /\ pc = "returned"
    /\ dicts[result] # dicts[caller]
    /\ \E i \in KeyIdx :
          /\ PreVal(MetaDictKey(Keys[i], PostFixMeta)).kind = "dict"
          /\ metas # pre.metas

C9_MixedKeysPathsKept ==
    (/\ Called("LoadImageTensord") /\ AllPresent /\ PathsAndArrays
     /\ \E i \in KeyIdx : IsStr(PreVal(Keys[i]))
     /\ \E i \in KeyIdx : IsNdArray(PreVal(Keys[i]))) =>
        /\ pc = "returned"
        /\ \A i \in KeyIdx :
              LET mk == MetaDictKey(Keys[i], PostFixMeta)
              IN  IF IsStr(PreVal(Keys[i]))
                  THEN dicts[result][Keys[i]] = PreVal(Keys[i]) /\ dicts[result][mk] = PreVal(mk)
                  ELSE dicts[result][Keys[i]].kind = "MetaTensor"

\* C10: NormalizeLabeld writes through to the caller's arrays: the returned
\* record binds each target key to the array object of the caller's record, which
\* now holds the binarized contents; and when the call raises at a later target
\* key, the labels of the keys before it are already binarized.
C10_WritesThrough ==
    Called("NormalizeLabeld") =>
        /\ pc = "returned" =>
              \A i \in KeyIdx :
                  /\ dicts[result][Keys[i]] = dicts[caller][Keys[i]]
                  /\ LabelBinarized(Keys[i])
        /\ pc = "raised" =>
              \A i \in 1..(failedAt - 1) : LabelBinarized(Keys[i])

\* the call raised at its second key after changing the label under its first
C10_Witness ==
    /\ Called("NormalizeLabeld") /\ pc = "raised" /\ failedAt = 2
    /\ arrays[PreVal(Keys[1]).ref] # pre.arrays[PreVal(Keys[1]).ref]
    /\ dicts[caller] = pre.dicts[caller]

====
